---- MODULE Spec2Model ----
(***************************************************************************)
(* Error normalisation (exception.py) and request-scoped logging context   *)
(* (logger.py) of the base module, as a state machine over request tasks.  *)
(***************************************************************************)
EXTENDS Integers, Sequences, FiniteSets, TLC

(* ------------------------------ bounds --------------------------------- *)

\* request tasks that may be in flight at the same time
NumReq == 2

\* requests received in one behaviour, over all tasks
MaxRequests == 2

\* field-level errors carried by one RequestValidationError
MaxErrors == 2

\* keys of a details mapping handed to EXC
MaxDetailKeys == 2

\* log records kept per execution unit
MaxLogs == 1

(* --------------------------- JSON-like values -------------------------- *)
\* A value of type Any (None, bool, str or list), as a record of one shape
\* so that any two values can be compared.

None == [t |-> "none", b |-> FALSE, s |-> "", l |-> <<>>]

Bool(b) == [t |-> "bool", b |-> b, s |-> "", l |-> <<>>]

Str(s) == [t |-> "str", b |-> FALSE, s |-> s, l |-> <<>>]

List(l) == [t |-> "list", b |-> FALSE, s |-> "", l |-> l]

\* Python truth value testing, as used by `if redirect:`
Truthy(v) ==
    CASE v.t = "none" -> FALSE
      [] v.t = "bool" -> v.b
      [] v.t = "str"  -> v.s # ""
      [] v.t = "list" -> v.l # <<>>

\* the empty dict
EmptyMap == [k \in {} |-> None]

\* dict.pop(key, ...) and dict item assignment, on the mapping alone
DictPop(d, key) == [k \in (DOMAIN d) \ {key} |-> d[k]]

DictSet(d, key, v) == [k \in (DOMAIN d) \cup {key} |-> IF k = key THEN v ELSE d[k]]

(* ------------------------------ catalog -------------------------------- *)

\* ResponseException(code=..., msg=...): the field defaults of
\* ModuleExceptionPayload and ResponseException
ResponseException(code, msg) ==
    [prefix |-> "ModuleException", msg |-> msg, code |-> code,
     details |-> EmptyMap, redirect |-> FALSE, notification |-> FALSE,
     custom |-> TRUE]

\* the members of the ErrorCode enum and their values at import time
ErrorCodeInit ==
    [BadRequest |-> ResponseException(4000, "Bad Request"),
     CouldNotValidateUserCreds |->
        ResponseException(4021, "Could not validate credentials: ValidationError"),
     UserExpiredSignatureError |->
        ResponseException(4022, "Could not validate credentials: ExpiredSignatureError"),
     IncorrUserCreds |-> ResponseException(4023, "Incorrect login or password"),
     NotAuthenticated |-> ResponseException(4030, "Not authenticated"),
     InactiveUser |-> ResponseException(4032, "Inactive user"),
     UserRegistrationForbidden |->
        ResponseException(4033, "Open user registration is forbidden on this server"),
     UserNotExists |->
        ResponseException(4035, "The user with this username does not exist in the system"),
     UserExists |-> ResponseException(4036, "The user already exists in the system"),
     ProjectLocked |-> ResponseException(4041, "Project locked"),
     NameAlreadyExists |-> ResponseException(4044, "This name already exists"),
     GTINNotExists |-> ResponseException(4045, "GTIN not found"),
     GTINAlreadyExists |-> ResponseException(4046, "GTIN already exists"),
     DMCodeNotExists |-> ResponseException(4045, "DataMatrix code not found"),
     DMCodeAlreadyExists |-> ResponseException(4046, "DataMatrix code already exists"),
     TaskNotFound |-> ResponseException(4061, "Task not found"),
     TaskAlreadyExists |-> ResponseException(4062, "Task already exists"),
     SessionNotFound |-> ResponseException(4071, "Session not found"),
     SessionAlreadyExists |-> ResponseException(4072, "Session already exists"),
     DeviceDisconnect |-> ResponseException(4073, "Some of devices disconnected"),
     TooManyRequestsError |-> ResponseException(4301, "Too Many Requests"),
     ValidationError |-> ResponseException(4400, "Validation error"),
     WrongFormat |-> ResponseException(4411, "Wrong format"),
     DMCodeValidationError |-> ResponseException(4412, "DMCode validation error"),
     GTINValidationError |-> ResponseException(4413, "GTIN validation error"),
     DMCodeAddingError |-> ResponseException(4414, "DMCode adding error"),
     GTINAddingError |-> ResponseException(4415, "GTIN adding error"),
     Unauthorized |->
        ResponseException(4501,
            "Sorry, you are not allowed to access this service: UnauthorizedRequest"),
     AuthorizeError |-> ResponseException(4502, "Authorization error"),
     ForbiddenError |-> ResponseException(4503, "Forbidden"),
     NotFoundError |-> ResponseException(4504, "Not Found"),
     ResponseProcessingError |-> ResponseException(4505, "Response Processing Error"),
     YookassaApiError |-> ResponseException(4511, "Yookassa Api Error"),
     InternalError |-> ResponseException(5000, "Internal Server Error"),
     CoreOffline |-> ResponseException(5021, "Core is offline"),
     CoreFileUploadingError |-> ResponseException(5022, "Core file uploading error"),
     DbError |-> ResponseException(5041, "Bad Gateway")]

ErrorCodeNames == DOMAIN ErrorCodeInit

\* HTTP_2_CUSTOM_ERR at import time: 422 -> ResponseException(code=422, ..., custom=False)
Http2CustomErrInit ==
    [c \in {422} |-> [ResponseException(422, "Validation error") EXCEPT !.custom = FALSE]]

(* ------------------ pydantic model <-> JSON / dict --------------------- *)

\* the fields ResponseException declares
ModelFields == {"prefix", "msg", "code", "details", "redirect", "notification", "custom"}

\* A mapping as json.loads or a caller produces it: `keys` are the keys that
\* are present, `illTyped` those whose value pydantic rejects for its field;
\* the value of an absent or ill-typed key is not read.
ErrorDict(keys, illTyped, msg, code, details, redirect, notification, custom) ==
    [keys |-> keys, illTyped |-> illTyped, msg |-> msg, code |-> code,
     details |-> details, redirect |-> redirect,
     notification |-> notification, custom |-> custom]

NoDict == ErrorDict({}, {}, "", 0, EmptyMap, FALSE, FALSE, FALSE)

\* HTTPException.detail: a str (json = what json.loads makes of it:
\* "invalid" raises JSONDecodeError, "object" decodes to `obj`, "other"
\* decodes to a number, list, string, bool or null) or a dict (`obj`)
StrDetail(json, text, obj) == [isStr |-> TRUE, json |-> json, text |-> text, obj |-> obj]

DictDetail(obj) == [isStr |-> FALSE, json |-> "object", text |-> "", obj |-> obj]

NoDetail == StrDetail("invalid", "", NoDict)

\* model_dump_json(): every field but `custom`, which is Field(exclude=True)
model_dump_json(m) ==
    StrDetail("object", "",
        ErrorDict(ModelFields \ {"custom"}, {}, m.msg, m.code, m.details,
                  m.redirect, m.notification, FALSE))

\* ResponseException(**error_dict): ok = FALSE when pydantic raises
\* ValidationError (msg is required; a value of the wrong type for a declared
\* field); keys that are no field are ignored; absent fields take defaults.
ResponseException_init(d) ==
    IF "msg" \notin d.keys \/ (d.illTyped \cap ModelFields) # {}
    THEN [ok |-> FALSE, error |-> "ValidationError", value |-> ResponseException(500, "")]
    ELSE [ok |-> TRUE, error |-> "",
          value |->
            [prefix |-> "ModuleException",
             msg |-> d.msg,
             code |-> IF "code" \in d.keys THEN d.code ELSE 500,
             details |-> IF "details" \in d.keys THEN d.details ELSE EmptyMap,
             redirect |-> IF "redirect" \in d.keys THEN d.redirect ELSE FALSE,
             notification |-> IF "notification" \in d.keys THEN d.notification ELSE FALSE,
             custom |-> IF "custom" \in d.keys THEN d.custom ELSE TRUE]]

\* parse_error_detail: json.loads with the JSONDecodeError fallback, then
\* ResponseException(**error_dict); `**` of a non-mapping raises TypeError
parse_error_detail(detail) ==
    IF detail.isStr /\ detail.json = "invalid"
    THEN ResponseException_init(
            ErrorDict({"msg", "code", "custom"}, {}, detail.text, 5000,
                      EmptyMap, FALSE, FALSE, FALSE))
    ELSE IF detail.isStr /\ detail.json = "other"
    THEN [ok |-> FALSE, error |-> "TypeError", value |-> ResponseException(500, "")]
    ELSE ResponseException_init(detail.obj)

\* `400 if 4000 <= inner_code <= 5000 else 500`: the upper end included
status_code_inclusive(inner_code) ==
    IF 4000 <= inner_code /\ inner_code <= 5000 THEN 400 ELSE 500

\* line 189: `400 if 4000 <= inner_code < 5000 else 500`
status_code_of(inner_code) ==
    IF 4000 <= inner_code /\ inner_code < 5000 THEN 400 ELSE 500

\* create_error_response with `details.pop('redirect', None)`: the entries are
\* taken out of details and the flags of the payload alone decide the keys
create_error_response_flags_only(resp_exc, table) ==
    LET details2 == DictPop(DictPop(resp_exc.details, "redirect"), "notification")
        details ==
            IF "reason" \in DOMAIN details2 /\ details2["reason"] = None
            THEN DictPop(details2, "reason") ELSE details2
        remap == ~resp_exc.custom /\ resp_exc.code \in DOMAIN table
        inner_code ==
            IF resp_exc.custom THEN resp_exc.code
            ELSE IF remap THEN table[resp_exc.code].code
            ELSE 5999
        msg == IF remap THEN table[resp_exc.code].msg ELSE resp_exc.msg
        response_data ==
            ("msg" :> msg) @@ ("code" :> inner_code) @@ ("details" :> details)
            @@ (IF resp_exc.redirect THEN ("redirect" :> Bool(TRUE)) ELSE EmptyMap)
            @@ (IF resp_exc.notification THEN ("notification" :> Bool(TRUE)) ELSE EmptyMap)
    IN  [status_code |-> status_code_of(inner_code), content |-> response_data,
         resp_exc |-> [resp_exc EXCEPT !.msg = msg]]

\* create_error_response: the status and the body, and resp_exc as the call
\* leaves it (line 185 assigns resp_exc.msg). jsonable_encoder leaves a dict
\* of str, int, bool, None, list and dict values as it is.
create_error_response(resp_exc, table) ==
    LET details0 == resp_exc.details
        redirect ==
            IF "redirect" \in DOMAIN details0 THEN details0["redirect"]
            ELSE Bool(resp_exc.redirect)
        details1 == DictPop(details0, "redirect")
        notification ==
            IF "notification" \in DOMAIN details1 THEN details1["notification"]
            ELSE Bool(resp_exc.notification)
        details2 == DictPop(details1, "notification")
        details ==
            IF "reason" \in DOMAIN details2 /\ details2["reason"] = None
            THEN DictPop(details2, "reason") ELSE details2
        remap == ~resp_exc.custom /\ resp_exc.code \in DOMAIN table
        inner_code ==
            IF resp_exc.custom THEN resp_exc.code
            ELSE IF remap THEN table[resp_exc.code].code
            ELSE 5999
        msg == IF remap THEN table[resp_exc.code].msg ELSE resp_exc.msg
        status_code == status_code_of(inner_code)
        response_data ==
            ("msg" :> msg) @@ ("code" :> inner_code) @@ ("details" :> details)
            @@ (IF Truthy(redirect) THEN ("redirect" :> redirect) ELSE EmptyMap)
            @@ (IF Truthy(notification) THEN ("notification" :> notification) ELSE EmptyMap)
    IN  [status_code |-> status_code, content |-> response_data,
         resp_exc |-> [resp_exc EXCEPT !.msg = msg]]

(* ------------------------------- state --------------------------------- *)

Req == 1..NumReq

\* execution units: 0 is the context of code that runs outside any request
Units == 0..NumReq

VARIABLES
    ErrorCode,          \* the ErrorCode members' values (shared objects)
    HTTP_2_CUSTOM_ERR,  \* the fallback table (shared objects)
    pc,                 \* where each request task is
    request,            \* the request a task handles: path and X-Trace-ID header
    ids,                \* the locals request_id, trace_id of dispatch
    ctx,                \* the ContextVars TRACE_ID, REQUEST_ID per execution unit
    exc,                \* the exception in flight in a task
    response,           \* the response a task holds
    logs,               \* the log records a task has produced
    uuidCount,          \* uuid4 values drawn so far
    nreq,               \* requests received so far
    call,               \* history: what the endpoint of a task raised
    outside             \* what code outside any request has read from the ContextVars

vars == <<ErrorCode, HTTP_2_CUSTOM_ERR, pc, request, ids, ctx, exc, response,
          logs, uuidCount, nreq, call, outside>>

catalogVars == <<ErrorCode, HTTP_2_CUSTOM_ERR>>

\* an optional `details` argument: None or a dict
NoneArg == [isNone |-> TRUE, map |-> EmptyMap]

DictArg(d) == [isNone |-> FALSE, map |-> d]

NoHeader == [present |-> FALSE, value |-> ""]

Header(v) == [present |-> TRUE, value |-> v]

NoRequest == [path |-> "", trace_header |-> NoHeader]

NoIds == [request_id |-> "", trace_id |-> ""]

NoExc == [type |-> "none", status_code |-> 0, detail |-> NoDetail,
          errors |-> <<>>, message |-> ""]

NoCall == [kind |-> "none", name |-> "", details |-> NoneArg,
           redirect |-> FALSE, notification |-> FALSE]

NoResponse == [status_code |-> 0, content |-> EmptyMap, headers |-> EmptyMap]

\* ContextVar(..., default=DEFAULT_TRACE_ID / DEFAULT_REQUEST_ID)
ContextDefaults == [TRACE_ID |-> "root", REQUEST_ID |-> "no-request"]

Init ==
    /\ ErrorCode = ErrorCodeInit
    /\ HTTP_2_CUSTOM_ERR = Http2CustomErrInit
    /\ pc = [r \in Req |-> "idle"]
    /\ request = [r \in Req |-> NoRequest]
    /\ ids = [r \in Req |-> NoIds]
    /\ ctx = [u \in Units |-> ContextDefaults]
    /\ exc = [r \in Req |-> NoExc]
    /\ response = [r \in Req |-> NoResponse]
    /\ logs = [r \in Req |-> {}]
    /\ uuidCount = 0
    /\ nreq = 0
    /\ call = [r \in Req |-> NoCall]
    /\ outside = {}

(* ----------------------------- logger.py ------------------------------- *)

\* str(uuid.uuid4()): the n-th value drawn, distinct from every other
uuid4(n) == "uuid-" \o ToString(n)

\* a set that binds the value in one store shared by all execution units
ContextVar_set_global(c, u, var, value) == [x \in DOMAIN c |-> [c[x] EXCEPT ![var] = value]]

\* ContextVar.set in execution unit u: the value is bound in u's context only
ContextVar_set(c, u, var, value) == [c EXCEPT ![u][var] = value]

\* ContextVar.get in execution unit u
ContextVar_get(c, u, var) == c[u][var]

\* dispatch with `headers.get('X-Trace-ID', request_id)`: the request id
\* serves as the trace id of a request that brings none
dispatch_enter_shared_id(r, path, trace_header) ==
    /\ pc[r] \in {"idle", "served", "raised"}
    /\ nreq < MaxRequests
    /\ LET request_id == uuid4(uuidCount)
           trace_id == IF trace_header.present THEN trace_header.value ELSE request_id
           c0 == [ctx EXCEPT ![r] = ctx[0]]
           c1 == ContextVar_set(c0, r, "REQUEST_ID", request_id)
           c2 == ContextVar_set(c1, r, "TRACE_ID", trace_id)
       IN  /\ ids' = [ids EXCEPT ![r] = [request_id |-> request_id, trace_id |-> trace_id]]
           /\ ctx' = c2
    /\ uuidCount' = uuidCount + 1
    /\ nreq' = nreq + 1
    /\ request' = [request EXCEPT ![r] = [path |-> path, trace_header |-> trace_header]]
    /\ pc' = [pc EXCEPT ![r] = "handling"]
    /\ exc' = [exc EXCEPT ![r] = NoExc]
    /\ response' = [response EXCEPT ![r] = NoResponse]
    /\ logs' = [logs EXCEPT ![r] = {}]
    /\ call' = [call EXCEPT ![r] = NoCall]
    /\ UNCHANGED <<catalogVars, outside>>

\* LoggingMiddleware.dispatch up to `await call_next(request)`, in a task
\* that starts with a copy of the context it was created in
dispatch_enter(r, path, trace_header) ==
    /\ pc[r] \in {"idle", "served", "raised"}
    /\ nreq < MaxRequests
    /\ LET request_id == uuid4(uuidCount)
           fallback == uuid4(uuidCount + 1)
           trace_id == IF trace_header.present THEN trace_header.value ELSE fallback
           c0 == [ctx EXCEPT ![r] = ctx[0]]
           c1 == ContextVar_set(c0, r, "REQUEST_ID", request_id)
           c2 == ContextVar_set(c1, r, "TRACE_ID", trace_id)
       IN  /\ ids' = [ids EXCEPT ![r] = [request_id |-> request_id, trace_id |-> trace_id]]
           /\ ctx' = c2
    /\ uuidCount' = uuidCount + 2
    /\ nreq' = nreq + 1
    /\ request' = [request EXCEPT ![r] = [path |-> path, trace_header |-> trace_header]]
    /\ pc' = [pc EXCEPT ![r] = "handling"]
    /\ exc' = [exc EXCEPT ![r] = NoExc]
    /\ response' = [response EXCEPT ![r] = NoResponse]
    /\ logs' = [logs EXCEPT ![r] = {}]
    /\ call' = [call EXCEPT ![r] = NoCall]
    /\ UNCHANGED <<catalogVars, outside>>

\* LoggingMiddleware.dispatch after call_next returned a response
dispatch_exit(r) ==
    /\ pc[r] = "responded"
    /\ response' = [response EXCEPT ![r].headers =
            DictSet(DictSet(@, "X-Request-ID", ids[r].request_id),
                    "X-Trace-ID", ids[r].trace_id)]
    /\ pc' = [pc EXCEPT ![r] = "served"]
    /\ UNCHANGED <<catalogVars, request, ids, ctx, exc, logs, uuidCount, nreq, call, outside>>

\* the exception handlers registered by exception_handler, by the class of
\* the exception (the first class of its MRO that has a handler)
HandlerFor(type) ==
    CASE type \in {"EXC", "HTTPException"} -> "http_exception_handler"
      [] type = "StarletteHTTPException" -> "custom_http_exception_handler"
      [] type = "RequestValidationError" -> "validation_exception_handler"
      [] OTHER -> "none"

\* LoggingMiddleware.dispatch when call_next raises: nothing catches the
\* exception, lines 166-169 do not run and dispatch raises it
dispatch_raise(r) ==
    /\ \/ pc[r] = "escaped"
       \/ pc[r] = "faulted" /\ HandlerFor(exc[r].type) = "none"
    /\ pc' = [pc EXCEPT ![r] = "raised"]
    /\ UNCHANGED <<catalogVars, request, ids, ctx, exc, response, logs, uuidCount, nreq, call, outside>>

\* a logging call through FastAPILoggerAdapter while the request is handled:
\* process() fills extra, StdoutFormatter.format adds the ids to a non-empty
\* data dict. The endpoint runs with a copy of the context dispatch has set
\* (the task call_next starts, or a worker thread), and sets nothing itself.
log(r, has_data) ==
    /\ pc[r] = "handling"
    /\ Cardinality(logs[r]) < MaxLogs
    /\ LET record ==
            [trace_id |-> ContextVar_get(ctx, r, "TRACE_ID"),
             request_id |-> ContextVar_get(ctx, r, "REQUEST_ID"),
             data |-> IF has_data
                      THEN ("trace_id" :> ContextVar_get(ctx, r, "TRACE_ID"))
                           @@ ("request_id" :> ContextVar_get(ctx, r, "REQUEST_ID"))
                      ELSE [k \in {} |-> ""]]
       IN  logs' = [logs EXCEPT ![r] = @ \cup {record}]
    /\ UNCHANGED <<catalogVars, pc, request, ids, ctx, exc, response, uuidCount, nreq, call, outside>>

(* ---------------------------- exception.py ----------------------------- *)

\* model_copy(update=...): a new object, the named fields replaced
model_copy(m, details, redirect, notification) ==
    [m EXCEPT !.details = details,
              !.redirect = IF redirect THEN TRUE ELSE @,
              !.notification = IF notification THEN TRUE ELSE @]

\* EXC.__init__ with `details` put into the update only when given: the copy
\* then keeps the details the shared descriptor has at the time
EXC_init_keep_details(value, details, redirect, notification) ==
    LET update_details ==
            IF details.isNone \/ details.map = EmptyMap THEN value.details ELSE details.map
        error_response == model_copy(value, update_details, redirect, notification)
    IN  [type |-> "EXC", status_code |-> 400,
         detail |-> model_dump_json(error_response),
         errors |-> <<>>, message |-> ""]

\* EXC.__init__: the HTTPException that EXC(exc, details, redirect,
\* notification) is; `details or {}` makes None and {} the same
EXC_init(value, details, redirect, notification) ==
    LET update_details ==
            IF details.isNone \/ details.map = EmptyMap THEN EmptyMap ELSE details.map
        error_response == model_copy(value, update_details, redirect, notification)
    IN  [type |-> "EXC", status_code |-> 400,
         detail |-> model_dump_json(error_response),
         errors |-> <<>>, message |-> ""]

\* the endpoint returns normally: call_next hands back its response
handler_returns(r) ==
    /\ pc[r] = "handling"
    /\ response' = [response EXCEPT ![r] =
            [status_code |-> 200, content |-> EmptyMap, headers |-> EmptyMap]]
    /\ pc' = [pc EXCEPT ![r] = "responded"]
    /\ UNCHANGED <<catalogVars, request, ids, ctx, exc, logs, uuidCount, nreq, call, outside>>

\* the endpoint raises EXC(ErrorCode.<name>, details, redirect, notification),
\* one of the given calls
raise_EXC(r, calls) ==
    /\ pc[r] = "handling"
    /\ \E c \in calls :
        /\ exc' = [exc EXCEPT ![r] =
                EXC_init(ErrorCode[c.name], c.details, c.redirect, c.notification)]
        /\ call' = [call EXCEPT ![r] =
                [kind |-> "EXC", name |-> c.name, details |-> c.details,
                 redirect |-> c.redirect, notification |-> c.notification]]
    /\ pc' = [pc EXCEPT ![r] = "faulted"]
    /\ UNCHANGED <<catalogVars, request, ids, ctx, response, logs, uuidCount, nreq, outside>>

\* the endpoint or the router raises a plain HTTPException, one of the given
\* ones: [type (fastapi's or starlette's class), status_code, detail]
raise_HTTPException(r, raised) ==
    /\ pc[r] = "handling"
    /\ \E x \in raised :
        /\ x.type \in {"HTTPException", "StarletteHTTPException"}
        /\ exc' = [exc EXCEPT ![r] =
                [type |-> x.type, status_code |-> x.status_code, detail |-> x.detail,
                 errors |-> <<>>, message |-> ""]]
        /\ call' = [call EXCEPT ![r] = [NoCall EXCEPT !.kind = x.type]]
    /\ pc' = [pc EXCEPT ![r] = "faulted"]
    /\ UNCHANGED <<catalogVars, request, ids, ctx, response, logs, uuidCount, nreq, outside>>

\* request validation fails with one of the given lists of field-level errors
raise_RequestValidationError(r, lists) ==
    /\ pc[r] = "handling"
    /\ \E errors \in lists :
        exc' = [exc EXCEPT ![r] =
            [type |-> "RequestValidationError", status_code |-> 0,
             detail |-> NoDetail, errors |-> errors, message |-> ""]]
    /\ pc' = [pc EXCEPT ![r] = "faulted"]
    /\ UNCHANGED <<catalogVars, request, ids, ctx, response, logs, uuidCount, nreq, outside>>
    /\ call' = [call EXCEPT ![r] = [NoCall EXCEPT !.kind = "RequestValidationError"]]

\* the endpoint raises an exception of a class no handler is registered for
raise_Exception(r, type, message) ==
    /\ pc[r] = "handling"
    /\ type \in {"Exception", "ModuleException"}
    /\ exc' = [exc EXCEPT ![r] =
            [type |-> type, status_code |-> 0, detail |-> NoDetail,
             errors |-> <<>>, message |-> message]]
    /\ pc' = [pc EXCEPT ![r] = "faulted"]
    /\ UNCHANGED <<catalogVars, request, ids, ctx, response, logs, uuidCount, nreq, outside>>
    /\ call' = [call EXCEPT ![r] = [NoCall EXCEPT !.kind = type]]

\* the handlers' body with `error.details.setdefault('endpoint', path)`: an
\* endpoint the payload already carries is kept
HandleHttp_setdefault(r) ==
    LET parsed == parse_error_detail(exc[r].detail)
        error == [parsed.value EXCEPT !.details =
                    IF "endpoint" \in DOMAIN @ THEN @
                    ELSE DictSet(@, "endpoint", Str(request[r].path))]
        made == create_error_response(error, HTTP_2_CUSTOM_ERR)
    IN  IF parsed.ok
        THEN /\ response' = [response EXCEPT ![r] =
                    [status_code |-> made.status_code, content |-> made.content,
                     headers |-> EmptyMap]]
             /\ pc' = [pc EXCEPT ![r] = "responded"]
             /\ exc' = exc
        ELSE /\ exc' = [exc EXCEPT ![r] =
                    [type |-> parsed.error, status_code |-> 0, detail |-> NoDetail,
                     errors |-> <<>>, message |-> ""]]
             /\ pc' = [pc EXCEPT ![r] = "escaped"]
             /\ response' = response

\* the body shared by http_exception_handler and custom_http_exception_handler
HandleHttp(r) ==
    LET parsed == parse_error_detail(exc[r].detail)
        error == [parsed.value EXCEPT !.details =
                    DictSet(@, "endpoint", Str(request[r].path))]
        made == create_error_response(error, HTTP_2_CUSTOM_ERR)
    IN  IF parsed.ok
        THEN /\ response' = [response EXCEPT ![r] =
                    [status_code |-> made.status_code, content |-> made.content,
                     headers |-> EmptyMap]]
             /\ pc' = [pc EXCEPT ![r] = "responded"]
             /\ exc' = exc
        ELSE /\ exc' = [exc EXCEPT ![r] =
                    [type |-> parsed.error, status_code |-> 0, detail |-> NoDetail,
                     errors |-> <<>>, message |-> ""]]
             /\ pc' = [pc EXCEPT ![r] = "escaped"]
             /\ response' = response

\* @app.exception_handler(HTTPException)
http_exception_handler(r) ==
    /\ pc[r] = "faulted"
    /\ HandlerFor(exc[r].type) = "http_exception_handler"
    /\ HandleHttp(r)
    /\ UNCHANGED <<catalogVars, request, ids, ctx, logs, uuidCount, nreq, call, outside>>

\* @app.exception_handler(StarletteHTTPException)
custom_http_exception_handler(r) ==
    /\ pc[r] = "faulted"
    /\ HandlerFor(exc[r].type) = "custom_http_exception_handler"
    /\ HandleHttp(r)
    /\ UNCHANGED <<catalogVars, request, ids, ctx, logs, uuidCount, nreq, call, outside>>

\* the validation handler filling the details only while they are empty
\* (`if not error.details: error.details = {...}`)
validation_exception_handler_once(r) ==
    /\ pc[r] = "faulted"
    /\ HandlerFor(exc[r].type) = "validation_exception_handler"
    /\ LET error == [ErrorCode["ValidationError"] EXCEPT !.details =
                        IF @ # EmptyMap THEN @
                        ELSE ("endpoint" :> Str(request[r].path))
                             @@ ("errors" :> List(exc[r].errors))]
           made == create_error_response(error, HTTP_2_CUSTOM_ERR)
       IN  /\ ErrorCode' = [ErrorCode EXCEPT !["ValidationError"] = made.resp_exc]
           /\ response' = [response EXCEPT ![r] =
                    [status_code |-> made.status_code, content |-> made.content,
                     headers |-> EmptyMap]]
    /\ pc' = [pc EXCEPT ![r] = "responded"]
    /\ UNCHANGED <<HTTP_2_CUSTOM_ERR, request, ids, ctx, exc, logs, uuidCount, nreq, call, outside>>

\* @app.exception_handler(RequestValidationError): `error` is the shared
\* ErrorCode.ValidationError value, and the assignment changes that object
validation_exception_handler(r) ==
    /\ pc[r] = "faulted"
    /\ HandlerFor(exc[r].type) = "validation_exception_handler"
    /\ LET error == [ErrorCode["ValidationError"] EXCEPT !.details =
                        ("endpoint" :> Str(request[r].path))
                        @@ ("errors" :> List(exc[r].errors))]
           made == create_error_response(error, HTTP_2_CUSTOM_ERR)
       IN  /\ ErrorCode' = [ErrorCode EXCEPT !["ValidationError"] = made.resp_exc]
           /\ response' = [response EXCEPT ![r] =
                    [status_code |-> made.status_code, content |-> made.content,
                     headers |-> EmptyMap]]
    /\ pc' = [pc EXCEPT ![r] = "responded"]
    /\ UNCHANGED <<HTTP_2_CUSTOM_ERR, request, ids, ctx, exc, logs, uuidCount, nreq, call, outside>>

(* ------------------------------ inputs --------------------------------- *)

Paths == {"/users/42", "/items"}

TraceHeaders == {NoHeader, Header("t1"), Header("t2")}

Messages == {"Not Found", "boom"}

DetailKeys == {"endpoint", "redirect", "notification", "reason", "info"}

DetailValues == {None, Bool(TRUE), Bool(FALSE), Str("x")}

\* the details mappings of at most MaxDetailKeys keys
DetailsMaps ==
    UNION {[K -> DetailValues] :
             K \in {S \in SUBSET DetailKeys : Cardinality(S) <= MaxDetailKeys}}

\* the descriptors raised with overrides
SampleCodes == {"NotFoundError", "ValidationError", "DbError"}

\* EXC(...) calls: every descriptor without overrides, and the sample
\* descriptors with every details mapping and flag
ExcCalls ==
    {[name |-> n, details |-> NoneArg, redirect |-> FALSE, notification |-> FALSE] :
        n \in ErrorCodeNames}
    \cup
    {[name |-> n, details |-> DictArg(d), redirect |-> rd, notification |-> nt] :
        n \in SampleCodes, d \in DetailsMaps, rd \in BOOLEAN, nt \in BOOLEAN}

\* one EXC(...) call without overrides
ExcCallsPlain ==
    {[name |-> "NotFoundError", details |-> NoneArg, redirect |-> FALSE,
      notification |-> FALSE]}

ObjKeys == {"msg", "code", "details", "custom", "extra"}

CodeSamples == {422, 4000, 5000, 200}

DetailSamples == {EmptyMap, ("reason" :> None)}

\* the objects with exactly the keys ks (an absent key has no value)
ObjWith(ks) ==
    {ErrorDict(ks, ill, IF "msg" \in ks THEN "boom" ELSE "", c, d, FALSE, FALSE, cu) :
        ill \in {{}} \cup {{k} : k \in ks \cap {"code"}},
        c \in IF "code" \in ks THEN CodeSamples ELSE {0},
        d \in IF "details" \in ks THEN DetailSamples ELSE {EmptyMap},
        cu \in IF "custom" \in ks THEN BOOLEAN ELSE {FALSE}}

ObjInputs == UNION {ObjWith(ks) : ks \in SUBSET ObjKeys}

\* HTTPException details: text that is no JSON, JSON that is no object, and
\* objects as a JSON string or as a dict
Details ==
    {StrDetail("invalid", m, NoDict) : m \in Messages}
    \cup {StrDetail("other", "", NoDict)}
    \cup {StrDetail("object", "", o) : o \in ObjInputs}
    \cup {DictDetail(o) : o \in ObjInputs}

\* a few of them
DetailsFew ==
    {StrDetail("invalid", m, NoDict) : m \in Messages}
    \cup {StrDetail("other", "", NoDict)}

StatusCodes == {404, 422}

\* exc.errors(): one field-level error, and MaxErrors of them
ErrorListsFew ==
    {<<"body.name: missing">>, [i \in 1..MaxErrors |-> "body.age: int_parsing"]}

\* plain HTTPExceptions: every class, status code and detail
HttpRaises ==
    {[type |-> t, status_code |-> c, detail |-> d] :
        t \in {"HTTPException", "StarletteHTTPException"}, c \in StatusCodes, d \in Details}

\* a few of them: fastapi's with a text, starlette's with JSON that is no object
HttpRaisesFew ==
    {[type |-> IF d.json = "other" THEN "StarletteHTTPException" ELSE "HTTPException",
      status_code |-> 404, detail |-> d] : d \in DetailsFew}

\* concurrent request tasks on one event loop
Next ==
    \E r \in Req :
        \/ \E p \in Paths, h \in TraceHeaders : dispatch_enter(r, p, h)
        \/ log(r, TRUE)
        \/ handler_returns(r)
        \/ raise_EXC(r, ExcCallsPlain)
        \/ raise_HTTPException(r, HttpRaisesFew)
        \/ raise_RequestValidationError(r, ErrorListsFew)
        \/ \E t \in {"Exception", "ModuleException"} : raise_Exception(r, t, "boom")
        \/ http_exception_handler(r)
        \/ custom_http_exception_handler(r)
        \/ validation_exception_handler(r)
        \/ dispatch_exit(r)
        \/ dispatch_raise(r)

Spec == Init /\ [][Next]_vars

\* one request after the other, over every input
NextPipeline ==
    \/ \E p \in Paths : dispatch_enter(1, p, NoHeader)
    \/ \E b \in BOOLEAN : log(1, b)
    \/ handler_returns(1)
    \/ raise_EXC(1, ExcCalls)
    \/ raise_HTTPException(1, HttpRaises)
    \/ raise_RequestValidationError(1, ErrorListsFew)
    \/ \E t \in {"Exception", "ModuleException"} : raise_Exception(1, t, "boom")
    \/ http_exception_handler(1)
    \/ custom_http_exception_handler(1)
    \/ validation_exception_handler(1)
    \/ dispatch_exit(1)
    \/ dispatch_raise(1)

SpecPipeline == Init /\ [][NextPipeline]_vars

(* ------------------------------- claims -------------------------------- *)

\* task r holds a response made by create_error_response
HasErrorResponse(r) == pc[r] \in {"responded", "served"} /\ call[r].kind # "none"

\* the status of a code's band
Band(code) == IF 4000 <= code /\ code < 5000 THEN 400 ELSE 500

\* C1: every error response has status 400 or 500, 400 exactly when the code
\* in its body is in [4000,5000); a descriptor raised through EXC gets the
\* status of its own code's band.
C1_StatusFollowsBand ==
    \A r \in Req :
        HasErrorResponse(r) =>
            /\ response[r].status_code \in {400, 500}
            /\ (response[r].status_code = 400) <=>
                    (4000 <= response[r].content["code"] /\ response[r].content["code"] < 5000)
            /\ call[r].kind = "EXC" =>
                    LET code == ErrorCodeInit[call[r].name].code
                    IN  /\ (4000 <= code /\ code < 5000) => response[r].status_code = 400
                        /\ (5000 <= code /\ code < 6000) => response[r].status_code = 500

\* the descriptor with code 5000 raised and answered with 500
C1_Witness ==
    \E r \in Req :
        /\ HasErrorResponse(r)
        /\ call[r].kind = "EXC"
        /\ call[r].name = "InternalError"
        /\ response[r].status_code = 500
        /\ response[r].content["code"] = 5000

\* C2: EXC(d) without details or flags on path p is answered with the body
\* {msg: d.msg, code: d.code, details: {endpoint: p}} and nothing else, and
\* with the status of d.code's band.
C2_PlainExcBody ==
    \A r \in Req :
        (/\ HasErrorResponse(r)
         /\ call[r].kind = "EXC"
         /\ call[r].details.isNone
         /\ ~call[r].redirect
         /\ ~call[r].notification) =>
            LET d == ErrorCodeInit[call[r].name]
            IN  /\ response[r].content =
                        ("msg" :> d.msg) @@ ("code" :> d.code)
                        @@ ("details" :> ("endpoint" :> Str(request[r].path)))
                /\ response[r].status_code = Band(d.code)

\* NotFoundError (4504) raised on /users/42 and answered
C2_Witness ==
    \E r \in Req :
        /\ HasErrorResponse(r)
        /\ call[r] = [kind |-> "EXC", name |-> "NotFoundError", details |-> NoneArg,
                      redirect |-> FALSE, notification |-> FALSE]
        /\ request[r].path = "/users/42"
        /\ response[r].status_code = 400
        /\ response[r].content =
                ("msg" :> "Not Found") @@ ("code" :> 4504)
                @@ ("details" :> ("endpoint" :> Str("/users/42")))

\* the payload the HTTP exception handlers read from the exception of task r
Payload(r) == parse_error_detail(exc[r].detail)

\* task r holds the response to a payload marked custom
CustomAnswered(r) ==
    /\ HasErrorResponse(r)
    /\ call[r].kind \in {"EXC", "HTTPException", "StarletteHTTPException"}
    /\ Payload(r).ok
    /\ Payload(r).value.custom

\* C3 as claimed: the response to a custom payload with code c and details D
\* on path p has code c and details D with endpoint = p added, whatever keys
\* D has.
C3_DetailsPassThrough ==
    \A r \in Req :
        CustomAnswered(r) =>
            /\ response[r].content["code"] = Payload(r).value.code
            /\ response[r].content["details"] =
                    DictSet(Payload(r).value.details, "endpoint", Str(request[r].path))

\* D without the keys redirect and notification, and without reason when
\* its value is None
WithoutFlagsAndNullReason(D) ==
    [k \in {x \in DOMAIN D :
                /\ x \notin {"redirect", "notification"}
                /\ ~(x = "reason" /\ D[x] = None)} |-> D[k]]

\* C3, amended: the response to a custom payload with code c and details D on
\* path p has code c, and its details are D with endpoint set to p, less the
\* keys redirect and notification and less a reason whose value is None.
C3_DetailsPassThroughAmended ==
    \A r \in Req :
        CustomAnswered(r) =>
            /\ response[r].content["code"] = Payload(r).value.code
            /\ response[r].content["details"] =
                    WithoutFlagsAndNullReason(
                        DictSet(Payload(r).value.details, "endpoint", Str(request[r].path)))

\* a custom payload whose details carry redirect and an endpoint of their
\* own, answered
C3_Witness ==
    \E r \in Req :
        /\ CustomAnswered(r)
        /\ DOMAIN Payload(r).value.details = {"redirect", "endpoint"}
        /\ Payload(r).value.details["endpoint"] # Str(request[r].path)
        /\ DOMAIN response[r].content["details"] = {"endpoint"}

\* C4: a request validation failure with n field errors on path p is
\* answered 400 with code 4400, msg 'Validation error' and details
\* {endpoint: p, errors: E}, E the n errors, whatever was answered before.
C4_ValidationBody ==
    \A r \in Req :
        (HasErrorResponse(r) /\ call[r].kind = "RequestValidationError") =>
            /\ response[r].status_code = 400
            /\ response[r].content =
                    ("msg" :> "Validation error") @@ ("code" :> 4400)
                    @@ ("details" :>
                            (("endpoint" :> Str(request[r].path))
                             @@ ("errors" :> List(exc[r].errors))))
            /\ Len(response[r].content["details"]["errors"].l) = Len(exc[r].errors)

\* a validation failure answered after an earlier one on another path with
\* another number of errors
C4_Witness ==
    \E r \in Req, q \in Req :
        /\ q # r
        /\ pc[q] = "served"
        /\ call[q].kind = "RequestValidationError"
        /\ pc[r] = "responded"
        /\ call[r].kind = "RequestValidationError"
        /\ request[q].path # request[r].path
        /\ Len(exc[q].errors) # Len(exc[r].errors)
        /\ Len(response[r].content["details"]["errors"].l) = MaxErrors

\* the request of task r has its outcome: a response served, or the
\* exception raised out of dispatch
Finished(r) == pc[r] \in {"served", "raised"}

\* C5: an exception of a class unknown to the pipeline ends as a response
\* with status 500 and code 5999 in the canonical body, not as an exception
\* raised past the request boundary.
C5_UnknownNormalized ==
    \A r \in Req :
        (Finished(r) /\ call[r].kind \in {"Exception", "ModuleException"}) =>
            /\ pc[r] = "served"
            /\ response[r].status_code = 500
            /\ DOMAIN response[r].content = {"msg", "code", "details"}
            /\ response[r].content["code"] = 5999

\* C6: whatever the handler chain did, the outcome of a request carries
\* X-Request-ID and X-Trace-ID equal to the ids established for it.
C6_HeadersOnEveryOutcome ==
    \A r \in Req :
        Finished(r) =>
            /\ DOMAIN response[r].headers = {"X-Request-ID", "X-Trace-ID"}
            /\ response[r].headers["X-Request-ID"] = ids[r].request_id
            /\ response[r].headers["X-Trace-ID"] = ids[r].trace_id

\* task r is handling a request
InFlight(r) == pc[r] \in {"handling", "faulted", "escaped", "responded"}

\* C7: every log record made while request r is handled carries the trace id
\* and request id dispatch established for r, the ones r's response headers
\* carry, and never the request id of another request in flight.
C7_Isolation ==
    \A r \in Req :
        /\ \A rec \in logs[r] :
            /\ rec.trace_id = ids[r].trace_id
            /\ rec.request_id = ids[r].request_id
            /\ "trace_id" \in DOMAIN rec.data => rec.data["trace_id"] = ids[r].trace_id
            /\ "request_id" \in DOMAIN rec.data => rec.data["request_id"] = ids[r].request_id
            /\ \A q \in Req \ {r} :
                    pc[q] # "idle" => rec.request_id # ids[q].request_id
            /\ pc[r] = "served" =>
                    /\ response[r].headers["X-Trace-ID"] = rec.trace_id
                    /\ response[r].headers["X-Request-ID"] = rec.request_id
        /\ InFlight(r) =>
                /\ ContextVar_get(ctx, r, "TRACE_ID") = ids[r].trace_id
                /\ ContextVar_get(ctx, r, "REQUEST_ID") = ids[r].request_id

\* two requests in flight with distinct inbound trace ids, each with a log
\* record of its own, the later one still handled
C7_Witness ==
    \E r \in Req, q \in Req :
        /\ r # q
        /\ pc[r] = "served"
        /\ pc[q] = "handling"
        /\ logs[r] # {}
        /\ logs[q] # {}
        /\ request[r].trace_header = Header("t1")
        /\ request[q].trace_header = Header("t2")
        /\ ids[q].request_id = uuid4(0)

\* C8: the trace id is the inbound X-Trace-ID when there is one and a fresh
\* id otherwise; the request id is always fresh, never the header's value,
\* and two requests never share it.
C8_IdsEstablished ==
    \A r \in Req :
        pc[r] # "idle" =>
            /\ request[r].trace_header.present =>
                    ids[r].trace_id = request[r].trace_header.value
            /\ ~request[r].trace_header.present =>
                    /\ ids[r].trace_id # ids[r].request_id
                    /\ \A q \in Req \ {r} :
                            pc[q] # "idle" =>
                                /\ ids[r].trace_id # ids[q].trace_id
                                /\ ids[r].trace_id # ids[q].request_id
            /\ \A h \in TraceHeaders : h.present => ids[r].request_id # h.value
            /\ \A q \in Req \ {r} :
                    pc[q] # "idle" => ids[r].request_id # ids[q].request_id

\* two requests served with the same inbound trace id
C8_Witness ==
    \E r \in Req, q \in Req :
        /\ r # q
        /\ pc[r] = "served"
        /\ pc[q] = "served"
        /\ request[r].trace_header = Header("t1")
        /\ request[q].trace_header = Header("t1")
        /\ ids[r].trace_id = ids[q].trace_id
        /\ ids[r].request_id # ids[q].request_id

\* task r raised an HTTPException that was no EXC
PlainHttpRaised(r) == call[r].kind \in {"HTTPException", "StarletteHTTPException"}

\* C9: whatever detail an HTTPException carries, once its handler has run
\* there is an error response of the canonical shape with status 400 or 500;
\* no exception leaves the handler.
C9_NormalizationTotal ==
    \A r \in Req :
        (PlainHttpRaised(r) /\ pc[r] # "faulted") =>
            /\ pc[r] \in {"responded", "served"}
            /\ response[r].status_code \in {400, 500}
            /\ {"msg", "code", "details"} \subseteq DOMAIN response[r].content

\* task r holds the generic payload made for an HTTPException whose detail
\* is text
GenericForText(r) ==
    /\ HasErrorResponse(r)
    /\ PlainHttpRaised(r)
    /\ exc[r].detail.isStr
    /\ exc[r].detail.json = "invalid"
    /\ response[r].content["code"] = 5999

\* C10: two requests that differ only in the text of the non-custom
\* exception raised get the same generic body (code 5999): the text is not
\* copied into it.
C10_MessageNotInBody ==
    \A r \in Req, q \in Req :
        (/\ GenericForText(r)
         /\ GenericForText(q)
         /\ request[r].path = request[q].path
         /\ call[r] = call[q]
         /\ exc[r].status_code = exc[q].status_code) =>
            response[r].content = response[q].content

\* task r holds the response to a plain HTTPException that carries no custom
\* payload and whose status code is a key of HTTP_2_CUSTOM_ERR
GenericWithTableStatus(r) ==
    /\ HasErrorResponse(r)
    /\ PlainHttpRaised(r)
    /\ exc[r].status_code \in DOMAIN HTTP_2_CUSTOM_ERR
    /\ Payload(r).ok
    /\ ~Payload(r).value.custom

\* C11: a generic HTTP exception whose status code is a key of
\* HTTP_2_CUSTOM_ERR (422) is answered with the table entry's message and a
\* code of the custom taxonomy in [4000,5000), so with status 400: neither
\* 5999 nor the transport code.
C11_TableRemap ==
    \A r \in Req :
        GenericWithTableStatus(r) =>
            /\ response[r].content["msg"] = HTTP_2_CUSTOM_ERR[exc[r].status_code].msg
            /\ 4000 <= response[r].content["code"]
            /\ response[r].content["code"] < 5000
            /\ response[r].content["code"] # exc[r].status_code
            /\ response[r].status_code = 400

\* the payload create_error_response was given for the response of task r,
\* before the handler put the endpoint (and the errors) into its details
ResponsePayload(r) ==
    IF call[r].kind = "RequestValidationError" THEN ErrorCodeInit["ValidationError"]
    ELSE Payload(r).value

\* the keys every body has
BodyKeys == {"msg", "code", "details"}

\* C12 as claimed: the body has the keys msg, code and details, and the key
\* redirect, with value true, exactly when the payload's redirect flag is
\* true; likewise notification; whatever the details contain.
C12_FlagKeys ==
    \A r \in Req :
        HasErrorResponse(r) =>
            LET P == ResponsePayload(r)
                body == response[r].content
            IN  /\ DOMAIN body =
                        BodyKeys \cup {k \in {"redirect", "notification"} : P[k]}
                /\ \A k \in {"redirect", "notification"} \cap DOMAIN body :
                        body[k] = Bool(TRUE)

\* the value create_error_response tests for flag k: the entry k of the
\* details when there is one, the payload's flag otherwise
EffectiveFlag(P, k) == IF k \in DOMAIN P.details THEN P.details[k] ELSE Bool(P[k])

\* C12, amended: the body has the keys msg, code and details, and the key
\* redirect exactly when the effective redirect value is truthy, that value
\* being details['redirect'] when the details have such an entry and the
\* payload's redirect flag otherwise; the key's value is that effective
\* value; likewise notification.
C12_FlagKeysAmended ==
    \A r \in Req :
        HasErrorResponse(r) =>
            LET P == ResponsePayload(r)
                body == response[r].content
            IN  /\ DOMAIN body =
                        BodyKeys \cup {k \in {"redirect", "notification"} :
                                            Truthy(EffectiveFlag(P, k))}
                /\ \A k \in {"redirect", "notification"} \cap DOMAIN body :
                        body[k] = EffectiveFlag(P, k)

\* a payload with the redirect flag set whose details carry redirect: false
\* and a text as notification, answered without redirect and with that text
C12_Witness ==
    \E r \in Req :
        /\ HasErrorResponse(r)
        /\ call[r].kind = "EXC"
        /\ ResponsePayload(r).redirect
        /\ ~ResponsePayload(r).notification
        /\ DOMAIN ResponsePayload(r).details = {"redirect", "notification"}
        /\ ResponsePayload(r).details["redirect"] = Bool(FALSE)
        /\ ResponsePayload(r).details["notification"] = Str("x")
        /\ DOMAIN response[r].content = BodyKeys \cup {"notification"}
        /\ response[r].content["notification"] = Str("x")

\* C13: after any sequence of requests every ErrorCode value and every
\* HTTP_2_CUSTOM_ERR entry has the msg, code, details (empty), redirect and
\* notification it had at startup: no request changes a shared descriptor.
C13_CatalogReadOnly ==
    /\ \A n \in ErrorCodeNames : ErrorCode[n] = ErrorCodeInit[n]
    /\ \A c \in DOMAIN Http2CustomErrInit : HTTP_2_CUSTOM_ERR[c] = Http2CustomErrInit[c]

(* ------------------- reads outside any request ------------------------- *)

\* FastAPILoggerAdapter.TRACE_ID / REQUEST_ID read (trace_id, request_id
\* properties, process, format) by code that runs in the context the request
\* tasks are created in, such as startup code: the values read, and how many
\* requests had been received and were being handled at that time
read_outside ==
    /\ Cardinality(outside) < MaxLogs
    /\ outside' = outside \cup
            {[trace_id |-> ContextVar_get(ctx, 0, "TRACE_ID"),
              request_id |-> ContextVar_get(ctx, 0, "REQUEST_ID"),
              received |-> nreq,
              handled |-> Cardinality({r \in Req :
                            pc[r] \in {"handling", "faulted", "escaped", "responded"}})]}
    /\ UNCHANGED <<catalogVars, pc, request, ids, ctx, exc, response, logs,
                   uuidCount, nreq, call>>

\* concurrent request tasks, and code outside them
NextOutside == Next \/ read_outside

SpecOutside == Init /\ [][NextOutside]_vars

\* C14: a read of TRACE_ID / REQUEST_ID made outside any request returns
\* 'root' and 'no-request', however many requests have been handled or are
\* in flight at the time.
C14_DefaultsOutside ==
    /\ \A rec \in outside :
        /\ rec.trace_id = ContextDefaults.TRACE_ID
        /\ rec.request_id = ContextDefaults.REQUEST_ID
    /\ ContextVar_get(ctx, 0, "TRACE_ID") = "root"
    /\ ContextVar_get(ctx, 0, "REQUEST_ID") = "no-request"

\* a read made after every request was received, one of them still handled,
\* the other one served with ids of its own
C14_Witness ==
    /\ \E rec \in outside : rec.received = MaxRequests /\ rec.handled >= 1
    /\ \E r \in Req :
        /\ pc[r] = "served"
        /\ ContextVar_get(ctx, r, "TRACE_ID") = "t1"
        /\ ContextVar_get(ctx, r, "REQUEST_ID") = ids[r].request_id

====
